---------------------------- MODULE Spec2Model ----------------------------
(***************************************************************************)
(* Model of naming_normalizer.py: the ignore matcher, the name normalizer  *)
(* and the rename planner / executor of normalize_names.                   *)
(*                                                                         *)
(* A name is a sequence of Unicode code points; a path is a sequence of    *)
(* names relative to the root handed to normalize_names.                   *)
(***************************************************************************)
EXTENDS Integers, Sequences, FiniteSets, TLC

VARIABLES
    fs,                \* the directory tree under root_path: a set of entries
    platform,          \* "linux" | "mac" | "windows": what the filesystem and pathlib do
    pc,                \* "idle" | "applying" | "done": position in normalize_names
    fs0,               \* the tree as it was when normalize_names scanned it
    nested, dry_run, confirm, ignore_patterns,    \* arguments of normalize_names
    encountered,       \* the candidates in the order the scanning loops met them
    dirs_to_process, files_to_process,            \* candidates, as resolved
    rename_operations, \* the plan: sequence of <<old_path, new_path>>
    skipped,           \* candidates rejected with "Target already exists, skipping"
    status,            \* which closing message normalize_names printed
    op_index,          \* position of the commit loop in rename_operations
    outcomes,          \* per executed operation: "ok" or "error"
    success_count, error_count,
    returned,          \* return value of normalize_names
    permission_warnings,   \* directories reported with "Permission denied accessing"
    unreadable,        \* directories whose listing raises PermissionError
    created_by_other,  \* ids of the entries another process created during the commit
    previous,          \* what the call before this one did, NoRun before the first
    name, keep_extension, once, twice, calls,     \* normalize_name applied to one input
    m_path, m_is_dir, m_patterns, m_matched, m_calls   \* matches_ignore_pattern applied

vars == <<fs, platform, pc, fs0, nested, dry_run, confirm, ignore_patterns,
          encountered, dirs_to_process, files_to_process, rename_operations, skipped,
          status, op_index, outcomes, success_count, error_count, returned,
          permission_warnings, unreadable, created_by_other, previous,
          name, keep_extension, once, twice, calls,
          m_path, m_is_dir, m_patterns, m_matched, m_calls>>

planner_vars == <<fs, platform, pc, fs0, nested, dry_run, confirm, ignore_patterns,
                  encountered, dirs_to_process, files_to_process, rename_operations,
                  skipped, status, op_index, outcomes, success_count, error_count,
                  returned, permission_warnings, unreadable, created_by_other, previous>>

norm_vars == <<name, keep_extension, once, twice, calls>>

match_vars == <<m_path, m_is_dir, m_patterns, m_matched, m_calls>>

-----------------------------------------------------------------------------
(* Bounds of the model *)

MaxEntries == 3        \* entries the environment creates under the root
MaxDepth == 2          \* deepest path, in segments below the root
MaxNameLen == 3        \* longest input of the normalize_name specification
MaxPatterns == 2       \* longest pattern list of the matcher specification
MaxIntrusions == 1     \* entries another process creates during one commit
MaxUnreadable == 1     \* directories without read permission

-----------------------------------------------------------------------------
(* Strings as code point sequences *)

RECURSIVE Concat(_)
Concat(ss) == IF ss = <<>> THEN <<>> ELSE Head(ss) \o Concat(Tail(ss))

StartsWith(s, p) == Len(s) >= Len(p) /\ SubSeq(s, 1, Len(p)) = p

EndsWith(s, p) == Len(s) >= Len(p) /\ SubSeq(s, Len(s) - Len(p) + 1, Len(s)) = p

Contains(s, c) == \E i \in 1..Len(s) : s[i] = c

\* str.lower() / str.casefold on the code points the model uses (ASCII letters)
LowerCp(c) == IF c >= 65 /\ c <= 90 THEN c + 32 ELSE c

Lower(s) == [i \in 1..Len(s) |-> LowerCp(s[i])]

\* str.replace(old, new), leftmost non-overlapping occurrences
RECURSIVE Replace(_, _, _)
Replace(s, old, new) ==
    IF s = <<>> THEN <<>>
    ELSE IF StartsWith(s, old) THEN new \o Replace(SubSeq(s, Len(old) + 1, Len(s)), old, new)
    ELSE <<Head(s)>> \o Replace(Tail(s), old, new)

\* str.strip(chars) for a set of code points
RECURSIVE LStrip(_, _)
LStrip(s, cs) == IF s # <<>> /\ Head(s) \in cs THEN LStrip(Tail(s), cs) ELSE s

RECURSIVE RStrip(_, _)
RStrip(s, cs) ==
    IF s # <<>> /\ s[Len(s)] \in cs THEN RStrip(SubSeq(s, 1, Len(s) - 1), cs) ELSE s

Strip(s, cs) == RStrip(LStrip(s, cs), cs)

\* index of the last occurrence of c in s, 0 when there is none
LastIndexOf(s, c) ==
    IF Contains(s, c) THEN CHOOSE i \in 1..Len(s) : s[i] = c /\ \A j \in (i+1)..Len(s) : s[j] # c
    ELSE 0

-----------------------------------------------------------------------------
(* Unicode data for the code points the model draws names from *)

\* unicodedata.category(char).startswith('M'): U+0301 combining acute,
\* U+05B0 Hebrew point sheva, U+0483 combining Cyrillic titlo
IsCombiningMark(c) == c \in {769, 1456, 1155}

\* unicodedata.normalize("NFKD", .) of one code point: U+00E9 decomposes to
\* e + U+0301; every other code point of the model is its own decomposition
NFKDCp(c) == IF c = 233 THEN <<101, 769>> ELSE <<c>>

NFKD(s) == Concat([i \in 1..Len(s) |-> NFKDCp(s[i])])

\* .encode("ascii", "ignore").decode("ascii")
AsciiIgnore(s) == SelectSeq(s, LAMBDA c : c < 128)

\* \w of the re module on ASCII text
IsWordCp(c) ==
    \/ c >= 97 /\ c <= 122
    \/ c >= 65 /\ c <= 90
    \/ c >= 48 /\ c <= 57
    \/ c = 95

-----------------------------------------------------------------------------
(* _contains_non_latin_script and normalize_name *)

InProtectedBlock(c) ==
    \/ c >= 19968 /\ c <= 40959        \* CJK Unified Ideographs
    \/ c >= 13312 /\ c <= 19903        \* CJK Extension A
    \/ c >= 131072 /\ c <= 173791      \* CJK Extension B
    \/ c >= 12352 /\ c <= 12447        \* Hiragana
    \/ c >= 12448 /\ c <= 12543        \* Katakana
    \/ c >= 44032 /\ c <= 55215        \* Hangul
    \/ c >= 1024 /\ c <= 1279          \* Cyrillic
    \/ c >= 1424 /\ c <= 1535          \* Hebrew
    \/ c >= 1536 /\ c <= 1791          \* Arabic
    \/ c >= 1792 /\ c <= 1871
    \/ c >= 1872 /\ c <= 1919
    \/ c >= 3584 /\ c <= 3711          \* Thai
    \/ c >= 2304 /\ c <= 2431          \* Devanagari
    \/ c >= 880 /\ c <= 1023           \* Greek
    \/ c >= 1328 /\ c <= 1423          \* Armenian
    \/ c >= 4256 /\ c <= 4351          \* Georgian

\* the classifier without its test for the protected blocks
ContainsNoScript(text) == FALSE

ContainsNonLatinScript(text) ==
    \E i \in 1..Len(text) : ~IsCombiningMark(text[i]) /\ InProtectedBlock(text[i])

\* name.rsplit(".", 1) when keep_extension and "." in name
SplitBase(nm, keep) ==
    IF keep /\ Contains(nm, 46) THEN SubSeq(nm, 1, LastIndexOf(nm, 46) - 1) ELSE nm

SplitExtension(nm, keep) ==
    IF keep /\ Contains(nm, 46) THEN SubSeq(nm, LastIndexOf(nm, 46), Len(nm)) ELSE <<>>

Unnamed == <<117, 110, 110, 97, 109, 101, 100>>      \* "unnamed"

\* the steps of normalize_name in another order: strip before substituting
CleanBaseStripFirst(base) ==
    LET ascii == AsciiIgnore(NFKD(base))
        stripped == Strip(ascii, {95})
        dashed == [i \in 1..Len(stripped) |-> IF stripped[i] = 45 THEN 95 ELSE stripped[i]]
        worded == [i \in 1..Len(dashed) |-> IF IsWordCp(dashed[i]) THEN dashed[i] ELSE 95]
        lowered == Lower(worded)
    IN  IF lowered = <<>> THEN Unnamed ELSE lowered

CleanBase(base) ==
    LET ascii == AsciiIgnore(NFKD(base))
        dashed == [i \in 1..Len(ascii) |-> IF ascii[i] = 45 THEN 95 ELSE ascii[i]]
        worded == [i \in 1..Len(dashed) |-> IF IsWordCp(dashed[i]) THEN dashed[i] ELSE 95]
        stripped == Strip(worded, {95})
        lowered == Lower(stripped)
    IN  IF lowered = <<>> THEN Unnamed ELSE lowered

normalize_name(nm, keep) ==
    IF ContainsNonLatinScript(SplitBase(nm, keep)) THEN nm
    ELSE CleanBase(SplitBase(nm, keep)) \o SplitExtension(nm, keep)

-----------------------------------------------------------------------------
(* fnmatch and the ignore matcher *)

Slash == <<47>>
Star == <<42>>

\* os.path.normcase: lowercases on Windows, the identity elsewhere
NormCase(s, plat) == IF plat = "windows" THEN Lower(s) ELSE s

\* fnmatch.fnmatchcase for patterns built from literals, * and ?
RECURSIVE Glob(_, _)
Glob(pat, s) ==
    IF pat = <<>> THEN s = <<>>
    ELSE IF Head(pat) = 42 THEN Glob(Tail(pat), s) \/ (s # <<>> /\ Glob(pat, Tail(s)))
    ELSE /\ s # <<>>
         /\ (Head(pat) = 63 \/ Head(pat) = Head(s))
         /\ Glob(Tail(pat), Tail(s))

fnmatch(s, pat, plat) == Glob(NormCase(pat, plat), NormCase(s, plat))

\* "/".join(parts)
RECURSIVE JoinPath(_)
JoinPath(parts) ==
    IF parts = <<>> THEN <<>>
    ELSE IF Len(parts) = 1 THEN parts[1]
    ELSE parts[1] \o Slash \o JoinPath(Tail(parts))

Whitespace == {32, 9, 10, 11, 12, 13}

\* _normalize_pattern, one prefix or suffix at a time: the result is
\* [pattern, negated, root_relative, dir_only]
StripDirSuffix(pattern, negated, root_relative, dir_only) ==
    [pattern |-> IF dir_only THEN SubSeq(pattern, 1, Len(pattern) - 1) ELSE pattern,
     negated |-> negated, root_relative |-> root_relative, dir_only |-> dir_only]

StripRootPrefix(pattern, negated, root_relative) ==
    StripDirSuffix(IF root_relative THEN Tail(pattern) ELSE pattern, negated, root_relative,
                   EndsWith(IF root_relative THEN Tail(pattern) ELSE pattern, Slash))

StripNegation(pattern, negated) ==
    StripRootPrefix(IF negated THEN Strip(Tail(pattern), Whitespace) ELSE pattern, negated,
                    StartsWith(IF negated THEN Strip(Tail(pattern), Whitespace) ELSE pattern,
                               Slash))

normalize_pattern(pattern) == StripNegation(pattern, StartsWith(pattern, <<33>>))

\* pattern.replace("**/", "*").replace("/**", "*").replace("**", "*")
FnmatchPattern(pattern) ==
    Replace(Replace(Replace(pattern, <<42, 42, 47>>, Star), <<47, 42, 42>>, Star),
            <<42, 42>>, Star)

ContainsSeq(s, sub) == \E i \in 1..(Len(s) - Len(sub) + 1) : SubSeq(s, i, i + Len(sub) - 1) = sub

\* fnmatch of one path string against several patterns
MatchesAny(subject, pats, plat) == \E pat \in pats : fnmatch(subject, pat, plat)

\* _check_pattern_match, with fnmatch_pattern and path_str computed
CheckTranslated(pattern, fp, path_str, path_parts, root_relative, plat) ==
    IF pattern = <<46, 42>>
    THEN IF path_parts # <<>>
         THEN \E i \in 1..Len(path_parts) : StartsWith(path_parts[i], <<46>>)
         ELSE StartsWith(path_str, <<46>>) \/ ContainsSeq(path_str, <<47, 46>>)
    ELSE IF root_relative
    THEN MatchesAny(path_str, {fp, fp \o <<47, 42>>}, plat)
    ELSE \/ MatchesAny(path_str, {Star \o fp, Star \o fp \o <<47, 42>>}, plat)
         \/ \E i \in 1..Len(path_parts) :
                \/ fnmatch(path_parts[i], fp, plat)
                \/ MatchesAny(JoinPath(SubSeq(path_parts, i, Len(path_parts))),
                              {fp, Star \o fp, fp \o <<47, 42>>}, plat)

check_pattern_match(pattern, path_parts, root_relative, plat) ==
    CheckTranslated(pattern, FnmatchPattern(pattern), JoinPath(path_parts), path_parts,
                    root_relative, plat)

\* a pattern that matches can only ignore: negation is without effect
MatchOneSticky(np, path_parts, is_dir, plat, matched) ==
    IF np.pattern = <<>> THEN matched
    ELSE IF np.dir_only /\ ~is_dir THEN matched
    ELSE matched \/ check_pattern_match(np.pattern, path_parts, np.root_relative, plat)

\* one pattern of the loop of matches_ignore_pattern: the new value of `matched`
MatchOne(np, path_parts, is_dir, plat, matched) ==
    IF np.pattern = <<>> THEN matched
    ELSE IF np.dir_only /\ ~is_dir THEN matched
    ELSE IF check_pattern_match(np.pattern, path_parts, np.root_relative, plat)
    THEN ~np.negated
    ELSE matched

\* the loop of matches_ignore_pattern over patterns[k..], carrying `matched`
RECURSIVE MatchLoop(_, _, _, _, _, _)
MatchLoop(patterns, k, path_parts, is_dir, plat, matched) ==
    IF k > Len(patterns) THEN matched
    ELSE MatchLoop(patterns, k + 1, path_parts, is_dir, plat,
                   MatchOne(normalize_pattern(patterns[k]), path_parts, is_dir, plat, matched))

\* path is given relative to root_path, so relative_to never raises
matches_ignore_pattern(path_parts, is_dir, patterns, plat) ==
    IF patterns = <<>> THEN FALSE
    ELSE MatchLoop(patterns, 1, path_parts, is_dir, plat, FALSE)

-----------------------------------------------------------------------------
(* The filesystem under root_path *)

\* An entry is [path, isDir, id]: id is the path the entry was created at and
\* stays with it when it is renamed.

Parent(p) == SubSeq(p, 1, Len(p) - 1)

BaseName(p) == p[Len(p)]

CaseInsensitive(plat) == plat \in {"mac", "windows"}

\* two names denote the same directory entry
SameName(a, b, plat) == IF CaseInsensitive(plat) THEN Lower(a) = Lower(b) ELSE a = b

SamePath(p, q, plat) ==
    /\ Len(p) = Len(q)
    /\ \A i \in 1..Len(p) : SameName(p[i], q[i], plat)

\* the entries a path denotes: none or one
Resolve(tree, p, plat) == {e \in tree : SamePath(e.path, p, plat)}

Exists(tree, p, plat) == p = <<>> \/ Resolve(tree, p, plat) # {}

ChildrenOf(tree, d) == {e \in tree : Len(e.path) = Len(d) + 1 /\ Parent(e.path) = d}

RECURSIVE Perms(_)
Perms(S) ==
    IF S = {} THEN {<<>>}
    ELSE UNION {{<<x>> \o q : q \in Perms(S \ {x})} : x \in S}

\* Path.iterdir() / os.scandir() of directory d: its children in the order the
\* operating system returns them, which `order` (a sequence of all entries) fixes
Listing(tree, d, order) == SelectSeq(order, LAMBDA e : e \in ChildrenOf(tree, d))

\* a numbering of the directories that have children
DirectoryRank(tree) ==
    CHOOSE f \in [{Parent(e.path) : e \in tree} -> 1..Cardinality({Parent(e.path) : e \in tree})] :
        \A a, b \in DOMAIN f : a # b => f[a] # f[b]

Grouped(order, rank) ==
    \A i, j \in 1..Len(order) :
        i < j => rank[Parent(order[i].path)] <= rank[Parent(order[j].path)]

\* the listing orders of a tree: only the order among the children of one
\* directory shows in a listing, so of the orders that agree on it one is kept,
\* the one that goes directory by directory
ListingOrders(tree) ==
    IF tree = {} THEN {<<>>}
    ELSE {order \in Perms(tree) : Grouped(order, DirectoryRank(tree))}

-----------------------------------------------------------------------------
(* The names, trees and pattern lists the model draws from *)

UpperA == <<65>>                                                    \* "A"
LowerA == <<97>>                                                    \* "a"
DashA == <<45, 97>>                                                 \* "-a"
MyFileTxt == <<77, 121, 32, 70, 105, 108, 101, 46, 116, 120, 116>>  \* "My File.txt"
MyFileLower == <<109, 121, 95, 102, 105, 108, 101, 46, 116, 120, 116>>  \* "my_file.txt"
MyFileUpperExt == <<109, 121, 95, 102, 105, 108, 101, 46, 84, 88, 84>>  \* "my_file.TXT"

\* names of the files and directories the environment creates
Names == {UpperA, LowerA, DashA}

Resume == <<77, 121, 45, 82, 233, 115, 117, 109, 233, 46, 80, 68, 70>>  \* "My-Résumé.PDF"
Nihongo == <<26085, 26412, 35486, 46, 116, 120, 116>>               \* "日本語.txt"
DotIgnore == <<46, 105, 103, 110, 111, 114, 101>>                   \* ".ignore"
DebugLog == <<100, 101, 98, 117, 103, 46, 108, 111, 103>>           \* "debug.log"
StarLog == <<42, 46, 108, 111, 103>>                                \* "*.log"

File(p) == [path |-> p, isDir |-> FALSE, id |-> p]

Dir(p) == [path |-> p, isDir |-> TRUE, id |-> p]

\* the root directory of the end-to-end scenario
ScenarioTree == {File(<<Resume>>), File(<<Nihongo>>), File(<<DotIgnore>>), File(<<DebugLog>>)}

\* the sibling files of the collision scenario, and two that clash only on a
\* case-insensitive filesystem
CollisionTree == {File(<<MyFileTxt>>), File(<<MyFileLower>>)}

CaseClashTree == {File(<<MyFileTxt>>), File(<<MyFileUpperExt>>)}

\* trees that are there before the environment creates anything
StartingTrees == {{}, ScenarioTree, CollisionTree, CaseClashTree}

\* the patterns "a", "!A" and "A/*"
LowerAPattern == <<97>>

NotUpperAPattern == <<33, 65>>

UnderUpperAPattern == <<65, 47, 42>>

PatternLists == {<<>>, <<StarLog>>, <<LowerAPattern, NotUpperAPattern>>, <<UnderUpperAPattern>>}

Platforms == {"linux", "mac", "windows"}

\* what the code makes of My-Résumé.PDF and of .ignore
MyResumeUpperPdf == <<109, 121, 95, 114, 101, 115, 117, 109, 101, 46, 80, 68, 70>>

UnnamedIgnore == Unnamed \o DotIgnore

\* the names of the starting trees, before and after their renames
ScenarioNames ==
    {Resume, Nihongo, DotIgnore, DebugLog, MyFileTxt, MyFileLower, MyFileUpperExt,
     MyResumeUpperPdf, UnnamedIgnore}

\* every path the scan can meet
KnownPaths ==
    (UNION {[1..n -> Names] : n \in 1..MaxDepth}) \cup {<<n>> : n \in ScenarioNames}

\* normalize_name of every name the scan can meet, tabulated once (@@ makes
\* the table explicit): <<keep_extension=False, keep_extension=True>>
NormalizedNames ==
    [n \in Names \cup ScenarioNames |->
        <<normalize_name(n, FALSE), normalize_name(n, TRUE)>>] @@ <<>>

Normalized(nm, keep) == NormalizedNames[nm][IF keep THEN 2 ELSE 1]

\* matches_ignore_pattern of every path the scan can meet, tabulated once
IgnoreVerdicts ==
    [q \in KnownPaths \X BOOLEAN \X PatternLists \X Platforms |->
        matches_ignore_pattern(q[1], q[2], q[3], q[4])] @@ <<>>

Ignored(path_parts, is_dir, patterns, plat) ==
    IgnoreVerdicts[<<path_parts, is_dir, patterns, plat>>]

-----------------------------------------------------------------------------
(* Scanning: lines 286-335 of normalize_names *)

\* the (path, normalized_name) candidates among a sequence of entries: those
\* not ignored whose name differs from its normalized form. Directories are
\* normalized with keep_extension=False, files with keep_extension=True.
RECURSIVE Candidates(_, _, _)
Candidates(entries, patterns, plat) ==
    IF entries = <<>> THEN <<>>
    ELSE IF Ignored(Head(entries).path, Head(entries).isDir, patterns, plat)
    THEN Candidates(Tail(entries), patterns, plat)
    ELSE IF BaseName(Head(entries).path)
            # Normalized(BaseName(Head(entries).path), ~Head(entries).isDir)
    THEN <<<<Head(entries).path,
             Normalized(BaseName(Head(entries).path), ~Head(entries).isDir)>>>>
         \o Candidates(Tail(entries), patterns, plat)
    ELSE Candidates(Tail(entries), patterns, plat)

\* two batches of candidates, one collected after the other
Merge(first, second) ==
    [dirs  |-> first.dirs \o second.dirs,
     files |-> first.files \o second.files,
     seen  |-> first.seen \o second.seen]

\* os.walk(root_path) from directory d, top-down: the candidates of d, then of
\* each kept subdirectory in listing order
RECURSIVE Walk(_, _, _, _, _)
RECURSIVE WalkEach(_, _, _, _, _)

\* the loop body at lines 290-313 for one (root, dirs, files) of os.walk: the
\* directories are collected first, then the files
Collected(dir_cands, file_cands) ==
    [dirs |-> dir_cands, files |-> file_cands, seen |-> dir_cands \o file_cands]

\* dirs are the subdirectories left after pruning
WalkBody(tree, dirs, files, order, patterns, plat) ==
    Merge(Collected(Candidates(dirs, patterns, plat), Candidates(files, patterns, plat)),
          WalkEach(tree, dirs, order, patterns, plat))

\* no directory is taken out of dirs
PrunedNever(e, patterns, plat) == FALSE

\* line 290: the directories taken out of dirs, which os.walk then does not enter
Pruned(e, patterns, plat) == Ignored(e.path, TRUE, patterns, plat)

WalkListing(tree, listing, order, patterns, plat) ==
    WalkBody(tree,
             SelectSeq(listing, LAMBDA e : e.isDir /\ ~Pruned(e, patterns, plat)),
             SelectSeq(listing, LAMBDA e : ~e.isDir),
             order, patterns, plat)

Walk(tree, d, order, patterns, plat) ==
    WalkListing(tree, Listing(tree, d, order), order, patterns, plat)

WalkEach(tree, dirs, order, patterns, plat) ==
    IF dirs = <<>> THEN [dirs |-> <<>>, files |-> <<>>, seen |-> <<>>]
    ELSE Merge(Walk(tree, Head(dirs).path, order, patterns, plat),
               WalkEach(tree, Tail(dirs), order, patterns, plat))

\* the non-nested branch (lines 316-333): one loop over root_path.iterdir()
ScanItems(items, patterns, plat) ==
    [dirs  |-> Candidates(SelectSeq(items, LAMBDA e : e.isDir), patterns, plat),
     files |-> Candidates(SelectSeq(items, LAMBDA e : ~e.isDir), patterns, plat),
     seen  |-> Candidates(items, patterns, plat)]

ScanRoot(tree, order, patterns, plat) == ScanItems(Listing(tree, <<>>, order), patterns, plat)

Scan(tree, nest, order, patterns, plat) ==
    IF nest THEN Walk(tree, <<>>, order, patterns, plat)
    ELSE ScanRoot(tree, order, patterns, plat)

-----------------------------------------------------------------------------
(* Resolving: lines 340-385 of normalize_names *)

\* insert x behind every element at least as deep: a stable descending sort
RECURSIVE InsertByDepth(_, _)
InsertByDepth(sorted, x) ==
    IF sorted = <<>> THEN <<x>>
    ELSE IF Len(Head(sorted)[1]) >= Len(x[1])
         THEN <<Head(sorted)>> \o InsertByDepth(Tail(sorted), x)
         ELSE <<x>> \o sorted

RECURSIVE SortDeepestFirstFrom(_, _)
SortDeepestFirstFrom(sorted, cands) ==
    IF cands = <<>> THEN sorted
    ELSE SortDeepestFirstFrom(InsertByDepth(sorted, Head(cands)), Tail(cands))

\* the list left as it was collected, shallowest directory first
SortNotAtAll(cands) == cands

\* dirs_to_process.sort(key=lambda x: len(x[0].parts), reverse=True)
SortDeepestFirst(cands) == SortDeepestFirstFrom(<<>>, cands)

\* files ahead of directories
FilesThenDirs(dirs, files) == files \o dirs

\* dirs_to_process + files_to_process
ProcessingOrder(dirs, files) == dirs \o files

\* pathlib's == on two paths: PureWindowsPath compares case-insensitively
PathEq(p, q, plat) == IF plat = "windows" THEN SamePath(p, q, plat) ELSE p = q

\* existing_files of a parent: the names parent_dir.iterdir() yields
ExistingNames(tree, parent_dir) == {BaseName(e.path) : e \in ChildrenOf(tree, parent_dir)}

\* the target is looked up through the filesystem instead of by its spelling
ExistsOnDisk(existing_files, old_path, new_name, plat) ==
    \E n \in existing_files : SameName(n, new_name, plat)

\* no on-disk test
ExistsNever(existing_files, old_path, new_name, plat) == FALSE

\* existing_item is not None and existing_item != old_path
TargetExists(existing_files, old_path, new_name, plat) ==
    /\ new_name \in existing_files
    /\ ~PathEq(Parent(old_path) \o <<new_name>>, old_path, plat)

\* no in-batch test
AssignedNever(assigned_names, new_name) == FALSE

\* new_name in assigned_names
AlreadyAssigned(assigned_names, new_name) == new_name \in assigned_names

\* lines 355-364: normalized_names_by_dir gets an entry for parent_dir the
\* first time the directory is met
Tracked(by_dir, parent_dir, tree) ==
    IF parent_dir \in DOMAIN by_dir THEN by_dir
    ELSE [d \in DOMAIN by_dir \cup {parent_dir} |->
            IF d = parent_dir
            THEN [existing |-> ExistingNames(tree, parent_dir), assigned |-> {}]
            ELSE by_dir[d]]

\* lines 366-385 for the candidate (old_path, new_name); r carries
\* normalized_names_by_dir, rename_operations and the candidates skipped
Decide(r, old_path, new_name, parent_dir, plat) ==
    IF TargetExists(r.by_dir[parent_dir].existing, old_path, new_name, plat)
    THEN [r EXCEPT !.skipped = Append(@, <<old_path, new_name>>)]
    ELSE IF AlreadyAssigned(r.by_dir[parent_dir].assigned, new_name)
    THEN [r EXCEPT !.skipped = Append(@, <<old_path, new_name>>)]
    ELSE [r EXCEPT !.by_dir[parent_dir].assigned = @ \cup {new_name},
                   !.ops = Append(@, <<old_path, parent_dir \o <<new_name>>>>)]

\* one iteration of the loop at line 350
ResolveOne(r, cand, tree, plat) ==
    Decide([r EXCEPT !.by_dir = Tracked(@, Parent(cand[1]), tree)],
           cand[1], cand[2], Parent(cand[1]), plat)

RECURSIVE ResolveFrom(_, _, _, _)
ResolveFrom(r, cands, tree, plat) ==
    IF cands = <<>> THEN r
    ELSE ResolveFrom(ResolveOne(r, Head(cands), tree, plat), Tail(cands), tree, plat)

ResolveAll(cands, tree, plat) ==
    ResolveFrom([by_dir |-> <<>>, ops |-> <<>>, skipped |-> <<>>], cands, tree, plat)

-----------------------------------------------------------------------------
(* Executing: old_path.rename(new_path), line 408 *)

\* the tree after entry e takes the place new_path, its descendants moving with it
Moved(tree, e, new_name, replaced) ==
    LET from == e.path
        to == Parent(e.path) \o <<new_name>>
        move(x) == IF x = e THEN [x EXCEPT !.path = to]
                   ELSE IF Len(x.path) > Len(from) /\ SubSeq(x.path, 1, Len(from)) = from
                   THEN [x EXCEPT !.path = to \o SubSeq(x.path, Len(from) + 1, Len(x.path))]
                   ELSE x
    IN  {move(x) : x \in tree \ replaced}

\* os.rename: [ok, fs]
RenameResult(tree, old_path, new_path, plat) ==
    LET src == Resolve(tree, old_path, plat)
        dst == Resolve(tree, new_path, plat)
        failed == [ok |-> FALSE, fs |-> tree]
    IN  IF src = {} THEN failed                      \* FileNotFoundError
        ELSE LET e == CHOOSE x \in src : TRUE
             IN  IF dst = {} \/ dst = src
                 THEN [ok |-> TRUE, fs |-> Moved(tree, e, BaseName(new_path), {})]
                 ELSE LET t == CHOOSE x \in dst : TRUE
                      IN  IF plat = "windows" THEN failed          \* FileExistsError
                          ELSE IF e.isDir # t.isDir THEN failed    \* EISDIR, ENOTDIR
                          ELSE IF t.isDir /\ ChildrenOf(tree, t.path) # {}
                          THEN failed                              \* ENOTEMPTY
                          ELSE [ok |-> TRUE,
                                fs |-> Moved(tree, e, BaseName(new_path), {t})]

-----------------------------------------------------------------------------
(* The state machine *)

\* no call of normalize_names has returned yet
NoRun == [status |-> "none"]

NormIdle ==
    /\ name = <<>>
    /\ keep_extension = TRUE
    /\ once = <<>>
    /\ twice = <<>>
    /\ calls = 0

PlannerIdle ==
    /\ pc = "idle"
    /\ fs0 = {}
    /\ nested = FALSE
    /\ dry_run = TRUE
    /\ confirm = FALSE
    /\ ignore_patterns = <<>>
    /\ encountered = <<>>
    /\ dirs_to_process = <<>>
    /\ files_to_process = <<>>
    /\ rename_operations = <<>>
    /\ skipped = <<>>
    /\ status = "none"
    /\ op_index = 1
    /\ outcomes = <<>>
    /\ success_count = 0
    /\ error_count = 0
    /\ returned = -1
    /\ permission_warnings = {}
    /\ unreadable = {}
    /\ created_by_other = {}
    /\ previous = NoRun

MatchIdle ==
    /\ m_path = <<>>
    /\ m_is_dir = FALSE
    /\ m_patterns = <<>>
    /\ m_matched = FALSE
    /\ m_calls = 0

Init ==
    /\ fs \in StartingTrees
    /\ platform \in Platforms
    /\ PlannerIdle
    /\ NormIdle
    /\ MatchIdle

\* Before normalize_names is called the environment fills the tree: one file
\* or directory is created in the root or in an existing directory.
Create(parent, nm, isDir) ==
    /\ pc = "idle"
    /\ previous = NoRun
    /\ Cardinality(fs) < MaxEntries
    /\ Len(parent) < MaxDepth
    /\ parent = <<>> \/ \E e \in fs : e.isDir /\ e.path = parent
    /\ \A e \in ChildrenOf(fs, parent) : ~SameName(BaseName(e.path), nm, platform)
    /\ fs' = fs \cup {[path |-> parent \o <<nm>>, isDir |-> isDir, id |-> parent \o <<nm>>]}
    /\ UNCHANGED <<platform, pc, fs0, nested, dry_run, confirm, ignore_patterns,
                   encountered, dirs_to_process, files_to_process, rename_operations, skipped,
                   status, op_index, outcomes, success_count, error_count, returned,
                   permission_warnings, unreadable, created_by_other, previous>>
    /\ UNCHANGED <<norm_vars, match_vars>>

\* lines 286-385: what the scan collects and what the resolution makes of it
Plan(tree, nest, order, patterns, plat) ==
    LET found == Scan(tree, nest, order, patterns, plat)
    IN  [dirs |-> SortDeepestFirst(found.dirs), files |-> found.files, seen |-> found.seen]

Resolved(dirs, files, tree, plat) ==
    [dirs |-> dirs, files |-> files,
     r |-> ResolveAll(ProcessingOrder(dirs, files), tree, plat)]

\* the entries a listing can reach: os.walk passes over a directory it may not
\* list (its onerror is None), and iterdir() of such a directory yields nothing
\* before it raises
Visible(tree, unread) ==
    {e \in tree : \A k \in 0..(Len(e.path) - 1) : SubSeq(e.path, 1, k) \notin unread}

\* lines 334-335: only the non-nested branch catches PermissionError, for root_path
PermissionWarnings(nest, unread) == IF ~nest /\ <<>> \in unread THEN {<<>>} ELSE {}

\* the renames are applied whatever confirm says
CommitsUnlessDry(dry, conf) == ~dry

\* lines 397-400: the commit branch is taken when dry_run is false and confirm true
Commits(dry, conf) == ~dry /\ conf

\* the early return is never taken
NothingToDoNever(ops) == FALSE

\* line 387: not rename_operations
NothingToDo(ops) == ops = <<>>

\* entries that match an ignore pattern are left out of existing_files
ListedUnlessIgnored(tree, patterns, plat) ==
    {e \in tree : ~Ignored(e.path, e.isDir, patterns, plat)}

\* lines 359-360: every item parent_dir.iterdir() yields goes into
\* existing_files; the ignore patterns are not consulted
Listed(tree, patterns, plat) == tree

\* normalize_names from its entry to the start of the commit loop (lines
\* 271-402): scan, sort, resolve, report, and return unless committing.
\* `order` is the order in which the operating system lists directories.
NormalizeNames(nest, patterns, order) ==
    /\ pc = "idle"
    /\ \E found \in {Plan(Visible(fs, unreadable), nest, order, patterns, platform)} :
       \E plan \in {Resolved(found.dirs, found.files,
                             Listed(Visible(fs, unreadable), patterns, platform),
                             platform)} :
           /\ encountered' = found.seen
           /\ dirs_to_process' = plan.dirs
           /\ files_to_process' = plan.files
           /\ rename_operations' = plan.r.ops
           /\ skipped' = plan.r.skipped
           /\ \E dry \in BOOLEAN, conf \in BOOLEAN :
                /\ dry_run' = dry
                /\ confirm' = conf
                /\ IF NothingToDo(plan.r.ops)
                   THEN pc' = "done" /\ status' = "already_normalized" /\ returned' = 0
                   ELSE IF Commits(dry, conf)
                   THEN pc' = "applying" /\ status' = "applying" /\ returned' = -1
                   ELSE pc' = "done" /\ returned' = Len(plan.r.ops)
                        /\ status' = IF dry THEN "dry_run" ELSE "unconfirmed"
    /\ permission_warnings' = PermissionWarnings(nest, unreadable)
    /\ fs0' = fs
    /\ nested' = nest
    /\ ignore_patterns' = patterns
    /\ UNCHANGED <<fs, platform, op_index, outcomes, success_count, error_count,
                   unreadable, created_by_other, previous>>
    /\ UNCHANGED <<norm_vars, match_vars>>

\* the loop ends at the first rename that fails
AbortOnError(i, ok, n) == IF ok THEN i + 1 ELSE n + 1

\* the for loop of line 406 goes on to the next operation after a success and
\* after a caught exception alike
NextOperation(i, ok, n) == i + 1

\* one iteration of the commit loop (lines 406-412)
Rename ==
    /\ pc = "applying"
    /\ op_index <= Len(rename_operations)
    /\ LET op == rename_operations[op_index]
           res == RenameResult(fs, op[1], op[2], platform)
       IN  /\ fs' = res.fs
           /\ outcomes' = Append(outcomes, IF res.ok THEN "ok" ELSE "error")
           /\ success_count' = IF res.ok THEN success_count + 1 ELSE success_count
           /\ error_count' = IF res.ok THEN error_count ELSE error_count + 1
           /\ op_index' = NextOperation(op_index, res.ok, Len(rename_operations))
    /\ UNCHANGED <<platform, pc, fs0, nested, dry_run, confirm, ignore_patterns,
                   encountered, dirs_to_process, files_to_process, rename_operations, skipped,
                   status, returned, permission_warnings, unreadable, created_by_other,
                   previous>>
    /\ UNCHANGED <<norm_vars, match_vars>>

\* the end of the commit branch (lines 414-417)
Finish ==
    /\ pc = "applying"
    /\ op_index > Len(rename_operations)
    /\ pc' = "done"
    /\ status' = "applied"
    /\ returned' = success_count
    /\ UNCHANGED <<fs, platform, fs0, nested, dry_run, confirm, ignore_patterns,
                   encountered, dirs_to_process, files_to_process, rename_operations, skipped,
                   op_index, outcomes, success_count, error_count, permission_warnings,
                   unreadable, created_by_other, previous>>
    /\ UNCHANGED <<norm_vars, match_vars>>

CreateAny ==
    \E parent \in {<<>>} \cup {e.path : e \in fs}, nm \in Names, isDir \in BOOLEAN :
        Create(parent, nm, isDir)

\* the first call, with any arguments
NormalizeNamesAny ==
    /\ previous = NoRun
    /\ \E nest \in BOOLEAN, patterns \in PatternLists, order \in ListingOrders(fs) :
           NormalizeNames(nest, patterns, order)

Next ==
    \/ CreateAny
    \/ NormalizeNamesAny
    \/ Rename
    \/ Finish

Spec == Init /\ [][Next]_vars

-----------------------------------------------------------------------------
(* The commit loop beside another process *)

\* the last segment of the id of an entry that another process created
OtherMark == <<0>>

\* Between two iterations of the commit loop another process creates a file or
\* a directory at the target path of operation j, which is yet to be executed.
Intrude(j, isDir) ==
    /\ pc = "applying"
    /\ j \in op_index..Len(rename_operations)
    /\ Cardinality(created_by_other) < MaxIntrusions
    /\ Resolve(fs, rename_operations[j][2], platform) = {}
    /\ Exists(fs, Parent(rename_operations[j][2]), platform)
    /\ fs' = fs \cup {[path |-> rename_operations[j][2], isDir |-> isDir,
                        id |-> rename_operations[j][2] \o <<OtherMark>>]}
    /\ created_by_other' = created_by_other \cup {rename_operations[j][2] \o <<OtherMark>>}
    /\ UNCHANGED <<platform, pc, fs0, nested, dry_run, confirm, ignore_patterns,
                   encountered, dirs_to_process, files_to_process, rename_operations, skipped,
                   status, op_index, outcomes, success_count, error_count, returned,
                   permission_warnings, unreadable, previous>>
    /\ UNCHANGED <<norm_vars, match_vars>>

IntrudeAny == \E j \in DOMAIN rename_operations, isDir \in BOOLEAN : Intrude(j, isDir)

RaceNext ==
    \/ CreateAny
    \/ NormalizeNamesAny
    \/ Rename
    \/ Finish
    \/ IntrudeAny

RaceSpec == Init /\ [][RaceNext]_vars

-----------------------------------------------------------------------------
(* Directories that cannot be listed *)

\* Before normalize_names is called, read permission is taken from the root
\* directory or from a directory of the tree.
Protect(d) ==
    /\ pc = "idle"
    /\ previous = NoRun
    /\ Cardinality(unreadable) < MaxUnreadable
    /\ d \notin unreadable
    /\ d = <<>> \/ \E e \in fs : e.isDir /\ e.path = d
    /\ unreadable' = unreadable \cup {d}
    /\ UNCHANGED <<fs, platform, pc, fs0, nested, dry_run, confirm, ignore_patterns,
                   encountered, dirs_to_process, files_to_process, rename_operations, skipped,
                   status, op_index, outcomes, success_count, error_count, returned,
                   permission_warnings, created_by_other, previous>>
    /\ UNCHANGED <<norm_vars, match_vars>>

ProtectAny == \E d \in {<<>>} \cup {e.path : e \in fs} : Protect(d)

PermNext ==
    \/ CreateAny
    \/ ProtectAny
    \/ NormalizeNamesAny
    \/ Rename
    \/ Finish

PermSpec == Init /\ [][PermNext]_vars

-----------------------------------------------------------------------------
(* A second call *)

\* normalize_names has returned; what it did is kept, and the caller is free to
\* call it again over the tree as it is now
Return ==
    /\ pc = "done"
    /\ previous = NoRun
    /\ previous' = [status |-> status, nested |-> nested,
                    ignore_patterns |-> ignore_patterns,
                    rejected |-> Len(skipped), error_count |-> error_count]
    /\ pc' = "idle"
    /\ fs0' = {}
    /\ nested' = FALSE
    /\ dry_run' = TRUE
    /\ confirm' = FALSE
    /\ ignore_patterns' = <<>>
    /\ encountered' = <<>>
    /\ dirs_to_process' = <<>>
    /\ files_to_process' = <<>>
    /\ rename_operations' = <<>>
    /\ skipped' = <<>>
    /\ status' = "none"
    /\ op_index' = 1
    /\ outcomes' = <<>>
    /\ success_count' = 0
    /\ error_count' = 0
    /\ returned' = -1
    /\ permission_warnings' = {}
    /\ UNCHANGED <<fs, platform, unreadable, created_by_other>>
    /\ UNCHANGED <<norm_vars, match_vars>>

\* the second call: over the same root, in the same mode, with the same patterns
NormalizeNamesAgain ==
    /\ previous # NoRun
    /\ \E order \in ListingOrders(fs) :
           NormalizeNames(previous.nested, previous.ignore_patterns, order)

RerunNext ==
    \/ CreateAny
    \/ NormalizeNamesAny
    \/ Rename
    \/ Finish
    \/ Return
    \/ NormalizeNamesAgain

RerunSpec == Init /\ [][RerunNext]_vars

-----------------------------------------------------------------------------
(* normalize_name on its own: one input, normalized and normalized again *)

\* the code points names are drawn from: A a _ - . space, U+00E9, U+0301,
\* U+65E5 (CJK), U+05B0 (a Hebrew combining mark)
Alphabet == {65, 97, 95, 45, 46, 32, 233, 769, 26085, 1456}

NameInputs == UNION {[1..n -> Alphabet] : n \in 0..MaxNameLen}

NormInit ==
    /\ fs = {}
    /\ platform = "linux"
    /\ PlannerIdle
    /\ name \in NameInputs
    /\ keep_extension \in BOOLEAN
    /\ once = <<>>
    /\ twice = <<>>
    /\ calls = 0
    /\ MatchIdle

NormalizeOnce ==
    /\ calls = 0
    /\ once' = normalize_name(name, keep_extension)
    /\ calls' = 1
    /\ UNCHANGED <<name, keep_extension, twice>>
    /\ UNCHANGED <<planner_vars, match_vars>>

NormalizeTwice ==
    /\ calls = 1
    /\ twice' = normalize_name(once, keep_extension)
    /\ calls' = 2
    /\ UNCHANGED <<name, keep_extension, once>>
    /\ UNCHANGED <<planner_vars, match_vars>>

NormNext == NormalizeOnce \/ NormalizeTwice

NormSpec == NormInit /\ [][NormNext]_vars

-----------------------------------------------------------------------------
(* matches_ignore_pattern on its own: one path against one pattern list *)

KeepTmp == <<107, 101, 101, 112, 46, 116, 109, 112>>                \* "keep.tmp"
OtherTmp == <<111, 116, 104, 101, 114, 46, 116, 109, 112>>          \* "other.tmp"
Sub == <<115, 117, 98>>                                             \* "sub"

StarTmp == <<42, 46, 116, 109, 112>>                                \* "*.tmp"
NotKeepTmp == <<33>> \o KeepTmp                                     \* "!keep.tmp"
SubSlash == Sub \o <<47>>                                           \* "sub/"
RootKeepTmp == <<47>> \o KeepTmp                                    \* "/keep.tmp"
Bang == <<33>>                                                      \* "!"

MatchPatterns == {StarTmp, NotKeepTmp, SubSlash, RootKeepTmp, Bang}

MatchPatternLists == UNION {[1..n -> MatchPatterns] : n \in 0..MaxPatterns}

MatchPaths == {<<KeepTmp>>, <<OtherTmp>>, <<Sub>>, <<Sub, KeepTmp>>}

MatchInit ==
    /\ fs = {}
    /\ platform \in Platforms
    /\ PlannerIdle
    /\ NormIdle
    /\ m_path \in MatchPaths
    /\ m_is_dir \in BOOLEAN
    /\ m_patterns \in MatchPatternLists
    /\ m_matched = FALSE
    /\ m_calls = 0

MatchesIgnorePattern ==
    /\ m_calls = 0
    /\ m_matched' = matches_ignore_pattern(m_path, m_is_dir, m_patterns, platform)
    /\ m_calls' = 1
    /\ UNCHANGED <<m_path, m_is_dir, m_patterns>>
    /\ UNCHANGED <<planner_vars, norm_vars>>

MatchNext == MatchesIgnorePattern

MatchSpec == MatchInit /\ [][MatchNext]_vars

-----------------------------------------------------------------------------
(* The plan, read back *)

\* a call of normalize_names has got as far as its plan
Planned == pc # "idle"

OpIndexes == DOMAIN rename_operations

old_path_of(i) == rename_operations[i][1]

new_path_of(i) == rename_operations[i][2]

\* the candidate (old_path, new_name) was accepted
Accepted(cand) ==
    \E i \in OpIndexes : rename_operations[i] = <<cand[1], Parent(cand[1]) \o <<cand[2]>>>>

\* the candidate was rejected with a warning
Rejected(cand) == \E k \in DOMAIN skipped : skipped[k] = cand

\* the operations planned with the target path t
Targeting(t) == {i \in OpIndexes : new_path_of(i) = t}

IsDirAt(tree, p) == \E e \in tree : e.path = p /\ e.isDir

\* p lies strictly beneath d
Beneath(p, d) == Len(p) > Len(d) /\ SubSeq(p, 1, Len(d)) = d

\* the scan of the call reaches entry e: it is in the root directory, or the call is
\* recursive, and neither e nor a directory above it matches an ignore pattern
Scanned(e) ==
    /\ nested \/ Len(e.path) = 1
    /\ ~Ignored(e.path, e.isDir, ignore_patterns, platform)
    /\ \A k \in 1..(Len(e.path) - 1) :
           ~Ignored(SubSeq(e.path, 1, k), TRUE, ignore_patterns, platform)

\* the name a file or directory is to get
TargetName(e) == Normalized(BaseName(e.path), ~e.isDir)

\* the candidates met in directory d that normalize to n, by their position in the
\* order of encounter
Rivals(d, n) ==
    {k \in DOMAIN encountered : Parent(encountered[k][1]) = d /\ encountered[k][2] = n}

Least(S) == CHOOSE k \in S : \A m \in S : k <= m

-----------------------------------------------------------------------------
(* C1 *)

\* C1: every planned operation keeps its source in the same parent directory,
\* no entry of that parent other than the source bears the target name when the
\* plan is made, and no two operations have the same target in one parent.
C1_PlanIsCollisionFree ==
    \A i \in OpIndexes :
        /\ Parent(new_path_of(i)) = Parent(old_path_of(i))
        /\ \A e \in ChildrenOf(fs0, Parent(old_path_of(i))) :
               e.path # old_path_of(i) => BaseName(e.path) # BaseName(new_path_of(i))
        /\ \A j \in OpIndexes : j # i => new_path_of(j) # new_path_of(i)

\* a plan of two operations made beside a rejected candidate
C1_Witness ==
    /\ Planned
    /\ Len(rename_operations) >= 2
    /\ skipped # <<>>

-----------------------------------------------------------------------------
(* C2 *)

\* C2: on a case-insensitive filesystem no planned operation has a target that
\* denotes an existing entry other than its source, and no entry that existed
\* when the plan was made is gone after the plan is executed.
C2_NoTargetDenotesAnotherEntry ==
    (Planned /\ CaseInsensitive(platform)) =>
        /\ \A i \in OpIndexes :
               \A e \in Resolve(fs0, new_path_of(i), platform) : e.path = old_path_of(i)
        /\ {e.id : e \in fs} = {e.id : e \in fs0}

\* on a case-insensitive filesystem with POSIX rename, beside My File.txt and
\* my_file.TXT, the plan has been executed and the entry my_file.TXT is gone
C2_Witness ==
    /\ platform = "mac"
    /\ fs0 = CaseClashTree
    /\ status = "applied"
    /\ \A e \in fs : e.id # <<MyFileUpperExt>>

-----------------------------------------------------------------------------
(* C3 *)

\* C3: in a recursive committing run, the source path of the operation about to
\* be executed denotes an existing entry.
C3_SourceExistsWhenExecuted ==
    (pc = "applying" /\ nested /\ op_index \in OpIndexes) =>
        Exists(fs, old_path_of(op_index), platform)

\* the directory was renamed, and the file operation that comes next names the
\* file by the directory's old path, which no longer exists
C3_Witness ==
    /\ pc = "applying"
    /\ nested
    /\ op_index \in OpIndexes
    /\ ~Exists(fs, old_path_of(op_index), platform)
    /\ \E i \in 1..(op_index - 1) :
           /\ outcomes[i] = "ok"
           /\ Beneath(old_path_of(op_index), old_path_of(i))

-----------------------------------------------------------------------------
(* C4 *)

-----------------------------------------------------------------------------
(* C5 *)

\* C5 as stated: for two sibling files with the same normalized name, exactly
\* one operation with that target is planned, and one of the two is rejected.
C5_ExactlyOneOperation ==
    Planned =>
        \A f, g \in fs0 :
            (/\ f # g /\ ~f.isDir /\ ~g.isDir
             /\ Parent(f.path) = Parent(g.path)
             /\ TargetName(f) = TargetName(g))
            => /\ Cardinality(Targeting(Parent(f.path) \o <<TargetName(f)>>)) = 1
               /\ \/ Rejected(<<f.path, TargetName(f)>>)
                  \/ Rejected(<<g.path, TargetName(g)>>)

\* C5: for two sibling files that the scan reaches and that have the same
\* normalized name: if an entry of their directory bears that name, no operation
\* with that target is planned and each of the two that is named otherwise is
\* rejected; if none does, exactly one operation with that target is planned,
\* and each of the two is either its source or rejected, at least one rejected.
C5_OneOperationUnlessNameTaken ==
    Planned =>
        \A f, g \in fs0 :
            (/\ f # g /\ ~f.isDir /\ ~g.isDir
             /\ Parent(f.path) = Parent(g.path)
             /\ Scanned(f) /\ Scanned(g)
             /\ TargetName(f) = TargetName(g))
            => IF TargetName(f) \in ExistingNames(fs0, Parent(f.path))
               THEN /\ Targeting(Parent(f.path) \o <<TargetName(f)>>) = {}
                    /\ \A h \in {f, g} :
                           BaseName(h.path) # TargetName(h) => Rejected(<<h.path, TargetName(h)>>)
               ELSE /\ Cardinality(Targeting(Parent(f.path) \o <<TargetName(f)>>)) = 1
                    /\ \A h \in {f, g} :
                           Accepted(<<h.path, TargetName(h)>>) \/ Rejected(<<h.path, TargetName(h)>>)
                    /\ \E h \in {f, g} : Rejected(<<h.path, TargetName(h)>>)

\* two sibling files with one normalized name that no entry bears: one is
\* planned, the other rejected
C5_Witness ==
    /\ Planned
    /\ \E f, g \in fs0 :
           /\ f # g /\ ~f.isDir /\ ~g.isDir
           /\ Parent(f.path) = Parent(g.path)
           /\ TargetName(f) = TargetName(g)
           /\ TargetName(f) \notin ExistingNames(fs0, Parent(f.path))
           /\ Accepted(<<f.path, TargetName(f)>>)
           /\ Rejected(<<g.path, TargetName(g)>>)

-----------------------------------------------------------------------------
(* C6 *)

\* the candidates at positions S of the order of encounter do not collide with
\* an entry on disk
NoneOnDisk(S) ==
    \A k \in S :
        ~TargetExists(ExistingNames(fs0, Parent(encountered[k][1])),
                      encountered[k][1], encountered[k][2], platform)

\* C6 as stated: of the sibling candidates with one target name, none colliding
\* with an entry on disk, the one encountered first is accepted and every later
\* one is rejected.
C6_FirstEncounteredAccepted ==
    Planned =>
        \A k \in DOMAIN encountered :
            LET S == Rivals(Parent(encountered[k][1]), encountered[k][2])
            IN  NoneOnDisk(S) =>
                    IF k = Least(S) THEN Accepted(encountered[k])
                    ELSE Rejected(encountered[k]) /\ ~Accepted(encountered[k])

\* the one that is accepted: the first directory encountered when a directory
\* is among the candidates, the first file otherwise
FirstDirectoryElseFirst(S) ==
    IF \E k \in S : IsDirAt(fs0, encountered[k][1])
    THEN Least({k \in S : IsDirAt(fs0, encountered[k][1])})
    ELSE Least(S)

\* C6: of the sibling candidates with one target name, none colliding with an
\* entry on disk, the accepted one is the first directory encountered, or the
\* first file encountered when no directory is among them; every other one is
\* rejected.
C6_FirstDirectoryElseFirstFile ==
    Planned =>
        \A k \in DOMAIN encountered :
            LET S == Rivals(Parent(encountered[k][1]), encountered[k][2])
            IN  NoneOnDisk(S) =>
                    IF k = FirstDirectoryElseFirst(S) THEN Accepted(encountered[k])
                    ELSE Rejected(encountered[k]) /\ ~Accepted(encountered[k])

\* a file and a directory, siblings, are candidates for one name that is not on
\* disk; one of them is planned and the other rejected
C6_Witness ==
    /\ Planned
    /\ \E k, m \in DOMAIN encountered :
           /\ k < m
           /\ m \in Rivals(Parent(encountered[k][1]), encountered[k][2])
           /\ NoneOnDisk({k, m})
           /\ IsDirAt(fs0, encountered[k][1]) # IsDirAt(fs0, encountered[m][1])
           /\ Accepted(encountered[k])
           /\ Rejected(encountered[m])

-----------------------------------------------------------------------------
(* C7 *)

\* the target of the candidate differs from its name in letter case only
CaseOnly(cand) ==
    /\ BaseName(cand[1]) # cand[2]
    /\ Lower(BaseName(cand[1])) = Lower(cand[2])

\* C7 as stated: a candidate whose target differs from its name in letter case
\* only, in a parent where no other entry has the target name, is accepted.
C7_CaseOnlyRenameAccepted ==
    Planned =>
        \A k \in DOMAIN encountered :
            (/\ CaseOnly(encountered[k])
             /\ encountered[k][2] \notin ExistingNames(fs0, Parent(encountered[k][1])))
            => Accepted(encountered[k])

\* C7: such a candidate is accepted unless another candidate of the same parent
\* has been accepted for the same target; it is never rejected as colliding
\* with itself.
C7_CaseOnlyRenameAcceptedUnlessTaken ==
    Planned =>
        \A k \in DOMAIN encountered :
            (/\ CaseOnly(encountered[k])
             /\ encountered[k][2] \notin ExistingNames(fs0, Parent(encountered[k][1])))
            => \/ Accepted(encountered[k])
               \/ \E i \in Targeting(Parent(encountered[k][1]) \o <<encountered[k][2]>>) :
                      old_path_of(i) # encountered[k][1]

\* on a case-insensitive filesystem, where the target denotes the source
\* itself, a case-only rename is planned
C7_Witness ==
    /\ Planned
    /\ CaseInsensitive(platform)
    /\ \E k \in DOMAIN encountered :
           /\ CaseOnly(encountered[k])
           /\ Resolve(fs0, Parent(encountered[k][1]) \o <<encountered[k][2]>>, platform)
                  = Resolve(fs0, encountered[k][1], platform)
           /\ Accepted(encountered[k])

-----------------------------------------------------------------------------
(* C8 *)

\* C8: normalize_name is idempotent: normalizing its result again, with the
\* same keep_extension, gives the same result.
C8_Idempotent == calls = 2 => twice = once

\* a name with an extension that the first call changes, normalized twice
C8_Witness ==
    /\ calls = 2
    /\ keep_extension
    /\ Contains(name, 46)
    /\ once # name

-----------------------------------------------------------------------------
(* C9 *)

-----------------------------------------------------------------------------
(* C10 *)

MyResumeLowerPdf == <<109, 121, 95, 114, 101, 115, 117, 109, 101, 46, 112, 100, 102>>

\* C10: for the root directory of the end-to-end scenario and the pattern list
\* ["*.log"], the plan is the one operation My-Résumé.PDF -> my_resume.pdf, and
\* debug.log is not a candidate.
C10_EndToEndPlan ==
    (Planned /\ fs0 = ScenarioTree /\ ignore_patterns = <<StarLog>>) =>
        /\ rename_operations = <<<<<<Resume>>, <<MyResumeLowerPdf>>>>>>
        /\ \A k \in DOMAIN encountered : encountered[k][1] # <<DebugLog>>

\* the plan made for the scenario: .ignore is to become unnamed.ignore, and
\* My-Résumé.PDF is to become my_resume.PDF
C10_Witness ==
    /\ Planned
    /\ fs0 = ScenarioTree
    /\ ignore_patterns = <<StarLog>>
    /\ \E i, j \in OpIndexes :
           /\ rename_operations[i] = <<<<Resume>>, <<MyResumeUpperPdf>>>>
           /\ rename_operations[j] = <<<<DotIgnore>>, <<UnnamedIgnore>>>>
    /\ Len(rename_operations) = 2

-----------------------------------------------------------------------------
(* C11 *)

\* pattern k of the list applies to the path and matches it
AppliesAndMatches(k) ==
    /\ normalize_pattern(m_patterns[k]).pattern # <<>>
    /\ ~(normalize_pattern(m_patterns[k]).dir_only /\ ~m_is_dir)
    /\ check_pattern_match(normalize_pattern(m_patterns[k]).pattern, m_path,
                           normalize_pattern(m_patterns[k]).root_relative, platform)

Matching == {k \in DOMAIN m_patterns : AppliesAndMatches(k)}

Greatest(S) == CHOOSE k \in S : \A m \in S : m <= k

\* C11: matches_ignore_pattern returns false when no pattern applies and
\* matches, and otherwise whether the last one that does is not negated; with
\* ["*.tmp", "!keep.tmp"] keep.tmp is not ignored and other.tmp is, with
\* ["!keep.tmp", "*.tmp"] keep.tmp is ignored.
C11_LastMatchingPatternDecides ==
    m_calls = 1 =>
        /\ m_matched = IF Matching = {} THEN FALSE
                       ELSE ~normalize_pattern(m_patterns[Greatest(Matching)]).negated
        /\ (m_patterns = <<StarTmp, NotKeepTmp>> /\ m_path = <<KeepTmp>>) => ~m_matched
        /\ (m_patterns = <<StarTmp, NotKeepTmp>> /\ m_path = <<OtherTmp>>) => m_matched
        /\ (m_patterns = <<NotKeepTmp, StarTmp>> /\ m_path = <<KeepTmp>>) => m_matched

\* keep.tmp in a subdirectory, matched by "*.tmp" and then by "!keep.tmp", is
\* not ignored
C11_Witness ==
    /\ m_calls = 1
    /\ m_patterns = <<StarTmp, NotKeepTmp>>
    /\ m_path = <<Sub, KeepTmp>>
    /\ Matching = {1, 2}
    /\ ~m_matched

-----------------------------------------------------------------------------
(* C12 *)

\* C12: unless dry_run is false and confirm is true, a call of normalize_names
\* leaves the filesystem as it was and returns the number of planned operations.
C12_RenamesOnlyWhenConfirmed ==
    (Planned /\ ~(~dry_run /\ confirm)) =>
        /\ pc = "done"
        /\ fs = fs0
        /\ returned = Len(rename_operations)

\* with dry_run false and confirm true the plan has been applied to the tree
C12_Witness ==
    /\ status = "applied"
    /\ ~dry_run /\ confirm
    /\ fs # fs0
    /\ returned = Len(rename_operations)

-----------------------------------------------------------------------------
(* C13 *)

\* C13: the commit loop attempts the planned operations one by one in list
\* order, whether or not an earlier one failed: while it runs, the operations
\* before op_index each have one outcome; when it has ended, success_count +
\* error_count is the number of planned operations.
C13_EveryOperationAttemptedOnce ==
    /\ pc = "applying" =>
           /\ op_index \in 1..(Len(rename_operations) + 1)
           /\ Len(outcomes) = op_index - 1
           /\ success_count + error_count = op_index - 1
    /\ status = "applied" =>
           /\ Len(outcomes) = Len(rename_operations)
           /\ success_count + error_count = Len(rename_operations)
           /\ success_count = Cardinality({i \in DOMAIN outcomes : outcomes[i] = "ok"})
           /\ returned = success_count

\* a rename failed and the one after it was attempted and succeeded
C13_Witness ==
    /\ status = "applied"
    /\ \E i, j \in DOMAIN outcomes : i < j /\ outcomes[i] = "error" /\ outcomes[j] = "ok"

-----------------------------------------------------------------------------
(* C14 *)

\* a directory above path p is ignored
BeneathIgnored(p) ==
    \E k \in 1..(Len(p) - 1) : Ignored(SubSeq(p, 1, k), TRUE, ignore_patterns, platform)

\* C14: no planned operation has an ignored source; in recursive mode none has
\* a source beneath an ignored directory; in non-recursive mode every source is
\* an immediate child of the root.
C14_IgnoredNeverPlanned ==
    \A i \in OpIndexes :
        /\ ~Ignored(old_path_of(i), IsDirAt(fs0, old_path_of(i)), ignore_patterns, platform)
        /\ nested => ~BeneathIgnored(old_path_of(i))
        /\ ~nested => Len(old_path_of(i)) = 1

\* a recursive run over a tree with an entry that needs renaming and that the
\* matcher does not report as ignored (a negated pattern matches it last), in a
\* directory that is ignored: the entry is neither planned nor rejected
C14_Witness ==
    /\ Planned
    /\ nested
    /\ \E e \in fs0 :
           /\ BeneathIgnored(e.path)
           /\ ~Ignored(e.path, e.isDir, ignore_patterns, platform)
           /\ BaseName(e.path) # TargetName(e)
           /\ ~Accepted(<<e.path, TargetName(e)>>)
           /\ ~Rejected(<<e.path, TargetName(e)>>)

-----------------------------------------------------------------------------
(* C15 *)

\* every entry the scan reaches has its normalized name
AllNormalized == \A e \in fs0 : Scanned(e) => BaseName(e.path) = TargetName(e)

\* C15: when every entry the scan reaches already has its normalized name, no
\* operation is planned, the status is "already normalized", 0 is returned and
\* the filesystem is as it was, whatever dry_run and confirm are.
C15_AlreadyNormalized ==
    (Planned /\ AllNormalized) =>
        /\ rename_operations = <<>>
        /\ pc = "done"
        /\ status = "already_normalized"
        /\ returned = 0
        /\ fs = fs0

\* a committing run over a tree whose only entries in need of a rename are not
\* reached by the scan
C15_Witness ==
    /\ Planned
    /\ AllNormalized
    /\ ~dry_run /\ confirm
    /\ \E e \in fs0 : BaseName(e.path) # TargetName(e)
    /\ \E e \in fs0 : Scanned(e)
    /\ status = "already_normalized"

-----------------------------------------------------------------------------
(* C16 *)

\* C16: a rejected candidate is the source of no planned operation, its entry
\* is still there under its own name whatever has been executed, and every
\* candidate met by the scan has been either planned or rejected.
C16_RejectedLeftAsItWas ==
    Planned =>
        /\ \A k \in DOMAIN skipped :
               /\ \A i \in OpIndexes : old_path_of(i) # skipped[k][1]
               /\ \E e \in fs : e.id = skipped[k][1] /\ BaseName(e.path) = BaseName(skipped[k][1])
        /\ \A k \in DOMAIN encountered : Accepted(encountered[k]) \/ Rejected(encountered[k])

\* a rejected candidate is gone after the plan was executed
C16_Witness ==
    /\ status = "applied"
    /\ \E k \in DOMAIN skipped : \A e \in fs : e.id # skipped[k][1]

-----------------------------------------------------------------------------
(* C20 *)

\* C20: the "already normalized" outcome is produced only when every entry the
\* scan reaches has its normalized name.
C20_AlreadyNormalizedOnlyWhenNormalized ==
    status = "already_normalized" => AllNormalized

\* every candidate was rejected and the outcome is "already normalized", 0
C20_Witness ==
    /\ status = "already_normalized"
    /\ returned = 0
    /\ skipped # <<>>
    /\ fs0 = CollisionTree

-----------------------------------------------------------------------------
(* C17 *)

\* operation j has been executed after another process created the entry x at
\* its target path
RacedFor(x, j) ==
    /\ new_path_of(j) \o <<OtherMark>> = x
    /\ j < op_index

\* C17: an operation executed after another process created an entry at its
\* target path is counted as a failure, the created entry is still there, the
\* source is still there under its name, and when the loop has ended every
\* operation has been attempted.
C17_CreatedTargetNotOverwritten ==
    /\ \A x \in created_by_other : \A j \in OpIndexes :
           RacedFor(x, j) =>
               /\ outcomes[j] = "error"
               /\ \E e \in fs : e.id = x
               /\ \A e \in fs0 : e.path = old_path_of(j) =>
                      \E e2 \in fs : e2.id = e.id /\ BaseName(e2.path) = BaseName(e.path)
    /\ status = "applied" => Len(outcomes) = Len(rename_operations)

\* on a filesystem with POSIX rename a file was created at the target of a file
\* operation; the operation was then executed and counted as a success, and
\* the created file is gone
C17_Witness ==
    /\ platform = "linux"
    /\ \E x \in created_by_other : \E j \in OpIndexes :
           /\ RacedFor(x, j)
           /\ outcomes[j] = "ok"
           /\ \A e \in fs : e.id # x

-----------------------------------------------------------------------------
(* C18 *)

\* the scan comes to list directory d: the root, or in recursive mode a
\* directory that it reaches
ToBeListed(d) ==
    \/ d = <<>>
    \/ /\ nested
       /\ \E e \in Visible(fs0, unreadable) : e.isDir /\ e.path = d /\ Scanned(e)

\* C18: for every directory that the scan comes to list and may not, a warning
\* is emitted, and every entry outside such directories that the scan reaches
\* and that needs renaming is planned or rejected.
C18_UnreadableDirectoryReported ==
    Planned =>
        /\ \A d \in unreadable : ToBeListed(d) => d \in permission_warnings
        /\ \A e \in Visible(fs0, unreadable) :
               (Scanned(e) /\ BaseName(e.path) # TargetName(e))
               => Accepted(<<e.path, TargetName(e)>>) \/ Rejected(<<e.path, TargetName(e)>>)

\* a recursive run over a tree with a directory that may not be listed and that
\* holds an entry: the rest of the tree is planned, and no warning is emitted
C18_Witness ==
    /\ Planned
    /\ nested
    /\ \E d \in unreadable : ToBeListed(d) /\ d # <<>> /\ ChildrenOf(fs0, d) # {}
    /\ rename_operations # <<>>
    /\ permission_warnings = {}

-----------------------------------------------------------------------------
(* C19 *)

\* the call before this one committed, rejected no candidate and saw every
\* rename succeed
CleanCommitBefore ==
    /\ previous.status = "applied"
    /\ previous.rejected = 0
    /\ previous.error_count = 0

\* C19: the plan of a second run, made after a commit run that rejected no
\* candidate and in which every rename succeeded, is empty.
C19_NothingLeftAfterCleanCommit ==
    (Planned /\ CleanCommitBefore) => rename_operations = <<>>

\* after such a commit run the second run, in the same mode and with the same
\* patterns, plans an operation
C19_Witness ==
    /\ Planned
    /\ CleanCommitBefore
    /\ nested
    /\ ignore_patterns = <<UnderUpperAPattern>>
    /\ rename_operations # <<>>

-----------------------------------------------------------------------------
(* C21 *)

\* the entries on disk, other than the candidate itself, that bear the
\* candidate's target name in the candidate's directory when the plan is made
Namesakes(cand) ==
    {e \in ChildrenOf(fs0, Parent(cand[1])) :
        e.path # cand[1] /\ BaseName(e.path) = cand[2]}

\* the matcher reports entry e as ignored
IgnoredEntry(e) == Ignored(e.path, e.isDir, ignore_patterns, platform)

\* C21: an entry on disk counts in the conflict state of its directory whether
\* or not it is ignored or has ignored siblings: a candidate whose target name
\* is the name of an ignored sibling is rejected and not planned, and no planned
\* operation has the path of an ignored entry as its target.
C21_IgnoredSiblingStillCounts ==
    /\ \A k \in DOMAIN encountered :
           \A e \in Namesakes(encountered[k]) :
               (IgnoredEntry(e) \/ \E o \in ChildrenOf(fs0, Parent(e.path)) : IgnoredEntry(o))
                   => Rejected(encountered[k]) /\ ~Accepted(encountered[k])
    /\ \A i \in OpIndexes :
           \A e \in fs0 : IgnoredEntry(e) => new_path_of(i) # e.path

\* a candidate whose target name is borne by an ignored sibling has been
\* rejected, while another candidate of the run has been planned
C21_Witness ==
    /\ Planned
    /\ rename_operations # <<>>
    /\ \E k \in DOMAIN encountered :
           /\ \E e \in Namesakes(encountered[k]) : IgnoredEntry(e)
           /\ Rejected(encountered[k])

=============================================================================
